---- MODULE Spec2Model ----
(***************************************************************************)
(* Voice-ai: the conversation turn pipeline of VoiceBotView                *)
(* (processConversationTurn, processAudioInput, startRecording,            *)
(* stopRecording, playResponse, stopPlayback, handleSuggestionClick), the  *)
(* response adapter getBotResponse of the gemini service and the analytics *)
(* fold updateMetrics of App.                                              *)
(*                                                                         *)
(* One action is one browser task: an event handler or the continuation of *)
(* an awaited external call, run up to the next await of an external       *)
(* service. React state set inside a task is committed before the next     *)
(* task's handler reads it; a value captured by a closure keeps the value  *)
(* of the render the closure was created in.                               *)
(*                                                                         *)
(* Times are whole milliseconds; avgResponseTime is kept as an exact       *)
(* fraction, so the rounding of IEEE doubles is not part of the model.     *)
(***************************************************************************)
EXTENDS Integers, Sequences, FiniteSets, TLC

(* ---------------- bounds ---------------- *)
\* user interactions begun in one run: suggestion clicks that start a turn and
\* clicks that start a recording
MaxTurns == 2
\* direct folds applied in the analytics-only specification
MaxFolds == 3
\* function calls in one engine reply in the adapter-only specification
MaxCalls == 2
\* milliseconds the clock advances in the specification with a running clock
MaxTicks == 2

\* elapsed times (stt, llm, tts) the performance.now() differences of one turn can take:
\* all below the clock's resolution, or 1, 2 and 4 ms
Timings == {[stt |-> 0, llm |-> 0, tts |-> 0], [stt |-> 1, llm |-> 2, tts |-> 4]}

VARIABLES
    status,            \* useState<LoadingState>
    error,             \* useState<string | null>
    messages,          \* useState<Message[]>
    metrics,           \* App: useState<AnalyticsMetrics>
    chatSession,       \* module variable of the service: TRUE when created
    turns,             \* the interactions: each a startRecording / processAudioInput /
                       \* processConversationTurn invocation chain with its recorder and stream
    nTurns,            \* interactions begun so far
    mediaRecorderRef,  \* interaction whose recorder the ref points at (0 = null)
    streamRef,         \* interaction whose stream the ref points at (0 = null)
    currentSourceRef,  \* interaction whose buffer source the ref points at (0 = null)
    sources,           \* state of each turn's AudioBufferSourceNode
    nFolds,            \* history: number of updateMetrics calls
    sumMillis,         \* history: sum of the response times handed to updateMetrics
    unitFolds,         \* history: every fold so far had totalQueries = 1 and a positive time
    lastArg,           \* history: argument of the latest updateMetrics call
    now,               \* Date.now(), in milliseconds
    mode               \* App: useState<AppMode>

vars == <<status, error, messages, metrics, chatSession, turns, nTurns,
          mediaRecorderRef, streamRef, currentSourceRef, sources,
          nFolds, sumMillis, unitFolds, lastArg, now, mode>>

uiVars == <<status, error, messages, chatSession, turns, nTurns,
            mediaRecorderRef, streamRef, currentSourceRef, sources>>

(* ---------------- types.ts ---------------- *)
AppMode == {"voice_bot", "dashboard", "tools"}

LoadingState == {"idle", "recording", "transcribing", "thinking",
                 "synthesizing", "playing", "error"}

\* an absent (undefined) numeric field of Partial<AnalyticsMetrics>
Absent == -1
\* lastQueryLatency null / undefined
NoLatency == [stt |-> Absent, llm |-> Absent, tts |-> Absent, total |-> Absent]

(* ---------------- App.updateMetrics ---------------- *)
RECURSIVE GCD(_, _)
GCD(a, b) == IF b = 0 THEN a ELSE GCD(b, a % b)

\* a fraction in lowest terms
Frac(n, d) == LET g == GCD(n, d) IN
              IF g = 0 THEN [num |-> 0, den |-> 1] ELSE [num |-> n \div g, den |-> d \div g]

\* JavaScript truthiness of an optional number: undefined and 0 are falsy
Truthy(x) == x # Absent /\ x # 0
\* x || 0
OrZero(x) == IF Truthy(x) THEN x ELSE 0

InitialMetrics == [totalQueries |-> 0, avgResponseTime |-> Frac(0, 1),
                   backendCalls |-> 0, lastQueryLatency |-> NoLatency]

\* variant: the previous average is not weighted by prev.totalQueries
RunningMeanDropsWeight(prev, new, totalQueries) ==
    Frac(prev.avgResponseTime.num + new.avgResponseTime * prev.avgResponseTime.den,
         prev.avgResponseTime.den * totalQueries)

\* ((prev.avgResponseTime * prev.totalQueries) + newMetrics.avgResponseTime) / totalQueries
RunningMean(prev, new, totalQueries) ==
    Frac(prev.avgResponseTime.num * prev.totalQueries
            + new.avgResponseTime * prev.avgResponseTime.den,
         prev.avgResponseTime.den * totalQueries)

\* variant: the previous latency is not kept when none is supplied
LatencyReplaces(prev, new) == new.lastQueryLatency

\* newMetrics.lastQueryLatency || prev.lastQueryLatency
LatencyOr(prev, new) ==
    IF new.lastQueryLatency # NoLatency THEN new.lastQueryLatency ELSE prev.lastQueryLatency

updateMetrics(prev, new) ==
    LET totalQueries == OrZero(prev.totalQueries) + OrZero(new.totalQueries) IN
    [totalQueries     |-> totalQueries,
     avgResponseTime  |-> IF Truthy(new.avgResponseTime) /\ Truthy(new.totalQueries)
                          THEN RunningMean(prev, new, totalQueries)
                          ELSE prev.avgResponseTime,
     backendCalls     |-> prev.backendCalls + OrZero(new.backendCalls),
     lastQueryLatency |-> LatencyOr(prev, new)]

\* the call updateMetrics(p), with the history of the calls
Fold(p) ==
    /\ metrics' = updateMetrics(metrics, p)
    /\ nFolds' = nFolds + 1
    /\ sumMillis' = sumMillis + (IF p.avgResponseTime = Absent THEN 0 ELSE p.avgResponseTime)
    /\ unitFolds' = (unitFolds /\ p.totalQueries = 1 /\ p.avgResponseTime # Absent
                       /\ p.avgResponseTime > 0)
    /\ lastArg' = p

\* variant: a step that does not call updateMetrics still counts a query
NoFoldCounts ==
    /\ metrics' = [metrics EXCEPT !.totalQueries = @ + 1]
    /\ UNCHANGED <<nFolds, sumMillis, unitFolds, lastArg>>

NoFold == UNCHANGED <<metrics, nFolds, sumMillis, unitFolds, lastArg>>

\* arguments a caller of updateMetrics can pass: every field may be absent
SomeLatency == [stt |-> 0, llm |-> 2, tts |-> 2, total |-> 4]
Partials == [totalQueries     : {Absent, 0, 1},
             avgResponseTime  : {Absent, 0, 2, 3},
             backendCalls     : {Absent, 0, 1},
             lastQueryLatency : {NoLatency, SomeLatency}]
AllAbsent == [totalQueries |-> Absent, avgResponseTime |-> Absent,
              backendCalls |-> Absent, lastQueryLatency |-> NoLatency]

(* ---------------- geminiService: tools and engine replies ---------------- *)
APOLOGY == "I'm having a bit of trouble connecting to my systems right now. Please try again in a moment."
CLARIFY == "I'm sorry, I didn't quite get that. Could you rephrase?"

\* keys of MOCK_DATABASE.orders
OrderIds == {"ORD-123", "ORD-456", "ORD-789"}
\* call.args undefined
NoArgs == "undefined"

\* function calls the engine may ask for: [id, name, orderId]; orderId = NoArgs when the
\* call carries no args object, "none" when args has no orderId
ToolCalls ==
    { [id |-> "c1", name |-> "getOrderStatus",    orderId |-> "ORD-123"],
      [id |-> "c2", name |-> "getOrderStatus",    orderId |-> "ORD-000"],
      [id |-> "c3", name |-> "getOrderStatus",    orderId |-> NoArgs],
      [id |-> "c4", name |-> "getAccountBalance", orderId |-> "none"],
      [id |-> "c5", name |-> "cancelOrder",       orderId |-> "none"] }

\* result.text of an engine reply: absent/empty, whitespace only, or a sentence
EngineTexts == {"", " ", "Your order has shipped."}

\* functionCalls of a reply in the pipeline specification
CallLists == {<<>>} \cup { <<c>> : c \in ToolCalls }

\* the calls of the adapter-only specification: also a getOrderStatus whose args object
\* has no orderId
AskCalls == ToolCalls \cup {[id |-> "c6", name |-> "getOrderStatus", orderId |-> "none"]}

\* functionCalls of the first reply in the adapter-only specification: up to MaxCalls calls
AskCallLists == UNION { [1..n -> AskCalls] : n \in 0..MaxCalls }

\* the for-loop body: apiResult of one call; "TypeError" when args.orderId reads undefined
ApiResult(call) ==
    IF call.name = "getOrderStatus"
    THEN IF call.orderId = NoArgs THEN "TypeError"
         ELSE IF call.orderId \in OrderIds THEN "order" ELSE "Order not found."
    ELSE IF call.name = "getAccountBalance" THEN "account"
    ELSE "Function not found"

\* parts pushed for the calls, in order
RECURSIVE ToolParts(_)
ToolParts(calls) ==
    IF calls = <<>> THEN <<>>
    ELSE <<[id |-> Head(calls).id, name |-> Head(calls).name,
            result |-> ApiResult(Head(calls))]>> \o ToolParts(Tail(calls))

ToolThrows(calls) == \E k \in 1..Len(calls) : ApiResult(calls[k]) = "TypeError"

\* the loop ran one of the two declared tools: a lookup in MOCK_DATABASE was made
ToolRan(calls) ==
    \E k \in 1..Len(calls) :
        /\ calls[k].name \in {"getOrderStatus", "getAccountBalance"}
        /\ \A j \in 1..k : ApiResult(calls[j]) # "TypeError"

\* text.trim() is empty
Blank(text) == text \in {"", " "}

(* ---------------- VoiceBotView state ---------------- *)
Turns == 1..MaxTurns

GREETING == "Hello! I'm Sonic. How can I help you today?"
SUGGESTION == "Where is order #ORD-123?"

\* blob.size < 100 is rejected
MIN_BLOB_SIZE == 100
BlobSizes == {0, 99, 100, 4096}

\* what transcribeAudio can resolve to
Transcripts == {"", " ", "...", "where is my order"}

NoTurn == [pc |-> "none", kind |-> "none", closure |-> "idle", stream |-> "none",
           text |-> "", toolUsed |-> FALSE, toolRan |-> FALSE, parts |-> <<>>,
           calls |-> <<>>, nCalls |-> 0, reply |-> "none",
           rounds |-> 0, unread |-> 0,
           audio |-> FALSE, timer |-> "none", short |-> FALSE, found |-> "",
           engineFailed |-> FALSE, outcome |-> "", folds |-> 0]

\* Date.now() when the view is mounted; the clock's first tick adds a digit
ClockStart == 9

\* the decimal digits
DigitChar == <<"0", "1", "2", "3", "4", "5", "6", "7", "8", "9">>

\* Number.prototype.toString of a non-negative integer
RECURSIVE toString(_)
toString(n) ==
    IF n < 10 THEN DigitChar[n + 1] ELSE toString(n \div 10) \o DigitChar[(n % 10) + 1]

\* the initial value of the messages state, built when the view is mounted
InitialMessages == <<[id |-> "init", role |-> "model", text |-> GREETING,
                      timestamp |-> now, isToolUse |-> FALSE, turn |-> 0]>>

Init ==
    /\ status = "idle"
    /\ error = "null"
    /\ now = ClockStart
    /\ mode = "voice_bot"
    /\ messages = InitialMessages
    /\ metrics = InitialMetrics
    /\ chatSession = FALSE
    /\ turns = [t \in Turns |-> NoTurn]
    /\ nTurns = 0
    /\ mediaRecorderRef = 0
    /\ streamRef = 0
    /\ currentSourceRef = 0
    /\ sources = [t \in Turns |-> "none"]
    /\ nFolds = 0
    /\ sumMillis = 0
    /\ unitFolds = TRUE
    /\ lastArg = AllAbsent

\* { id: Date.now().toString(), role: 'user', text: userText, timestamp: Date.now() }
UserMsg(t, text) == [id |-> toString(now), role |-> "user", text |-> text,
                     timestamp |-> now, isToolUse |-> FALSE, turn |-> t]
\* { id: (Date.now() + 1).toString(), role: 'model', text, timestamp: Date.now(), isToolUse }
BotMsg(t, text, toolUsed) == [id |-> toString(now + 1), role |-> "model", text |-> text,
                              timestamp |-> now, isToolUse |-> toolUsed, turn |-> t]

SetTurn(t, r) == turns' = [turns EXCEPT ![t] = r]

\* variant: the user message is put in front of the transcript
AppendUserFirst(msgs, t, text) == <<UserMsg(t, text)>> \o msgs

\* variant: the user message is not appended
AppendUserLost(msgs, t, text) == msgs

\* setMessages(prev => [...prev, userMsg])
AppendUser(msgs, t, text) == Append(msgs, UserMsg(t, text))

\* variant: the bot message is not appended
AppendBotLost(msgs, t, text, toolUsed) == msgs

\* variant: the bot message is appended twice
AppendBotTwice(msgs, t, text, toolUsed) ==
    Append(Append(msgs, BotMsg(t, text, toolUsed)), BotMsg(t, text, toolUsed))

\* setMessages(prev => [...prev, botMsg])
AppendBot(msgs, t, text, toolUsed) == Append(msgs, BotMsg(t, text, toolUsed))

(* ---------------- stopPlayback ---------------- *)
\* variant: stop() marks whatever source the ref holds
StoppedWhatever(srcs, ref) ==
    IF ref # 0 THEN [srcs EXCEPT ![ref] = "stopped"] ELSE srcs

\* the sources after if (currentSourceRef.current) { try { ...stop() } catch (e) {} }
Stopped(srcs, ref) ==
    IF ref # 0 /\ srcs[ref] = "playing" THEN [srcs EXCEPT ![ref] = "stopped"] ELSE srcs

\* currentSourceRef.current.stop() inside try/catch: a playing source is stopped (its
\* ended event follows); a source never started throws, which is swallowed
stopPlayback == sources' = Stopped(sources, currentSourceRef)

(* ---------------- processConversationTurn ---------------- *)
\* variant: the catch goes straight to idle and schedules nothing
InnerCatchGoesIdle(t, r) ==
    /\ error' = "SYSTEM ERR"
    /\ status' = "idle"
    /\ SetTurn(t, [r EXCEPT !.pc = "failed", !.outcome = "askThrew"])

\* the catch of processConversationTurn: setError, setStatus('error'), setTimeout
InnerCatch(t, r) ==
    /\ error' = "SYSTEM ERR"
    /\ status' = "error"
    /\ SetTurn(t, [r EXCEPT !.pc = "failed", !.outcome = "askThrew", !.timer = "inner"])

\* from the top of processConversationTurn to the first await inside getBotResponse:
\* the user message is appended, the status set, the session created when there is
\* none (outside the try of getBotResponse), and the first sendMessage dispatched
ConversationTurn(t, r, userText) ==
    /\ messages' = AppendUser(messages, t, userText)
    /\ \/ /\ chatSession' = TRUE
          /\ status' = "thinking"
          /\ error' = error
          /\ SetTurn(t, [r EXCEPT !.pc = "llm1", !.rounds = 1])
       \/ /\ ~chatSession
          /\ chatSession' = FALSE
          /\ InnerCatch(t, [r EXCEPT !.engineFailed = TRUE])

\* const totalTime = sttLatency + llmTime + ttsTime
TotalTime(sttLatency, llmTime, ttsTime) == sttLatency + llmTime + ttsTime

\* the argument of the turn's updateMetrics call
TurnMetrics(sttLatency, llmTime, ttsTime, toolUsed) ==
    [totalQueries |-> 1,
     avgResponseTime |-> TotalTime(sttLatency, llmTime, ttsTime),
     backendCalls |-> IF toolUsed THEN 1 ELSE 0,
     lastQueryLatency |-> [stt |-> sttLatency, llm |-> llmTime, tts |-> ttsTime,
                           total |-> TotalTime(sttLatency, llmTime, ttsTime)]]

\* variant: playback is attempted whatever generateSpeech gave
ShouldPlayAlways(audio) == TRUE

\* if (audioData)
ShouldPlay(audio) == audio

\* steps 4-6: fold the metrics, then play or go idle, then append the bot message.
\* The elapsed times of the turn are drawn here, where they are first used: sttLatency
\* is 0 for a suggestion, ttsTime is 0 when generateSpeech returned without a call.
Finish(t, r, audio, called) ==
    /\ \E tm \in Timings :
         Fold(TurnMetrics(IF r.kind = "voice" THEN tm.stt ELSE 0, tm.llm,
                          IF called THEN tm.tts ELSE 0, r.toolUsed))
    /\ IF ShouldPlay(audio)
       THEN /\ status' = "playing"
            /\ messages' = messages
            /\ SetTurn(t, [r EXCEPT !.pc = "play", !.audio = audio, !.folds = @ + 1,
                                    !.unread = 0])
       ELSE /\ status' = "idle"
            /\ messages' = AppendBot(messages, t, r.text, r.toolUsed)
            /\ SetTurn(t, [r EXCEPT !.pc = "done", !.outcome = "completed",
                                    !.audio = audio, !.folds = @ + 1, !.unread = 0])

\* getBotResponse has returned (text, toolUsed): step 3 up to the await of generateSpeech,
\* which resolves to null without calling the service when the text is blank
AfterAsk(t, r0, text, toolUsed) ==
    LET r == [r0 EXCEPT !.text = text, !.toolUsed = toolUsed, !.parts = <<>>,
                        !.calls = <<>>] IN
    IF Blank(text)
    THEN Finish(t, r, FALSE, FALSE)
    ELSE /\ status' = "synthesizing"
         /\ SetTurn(t, [r EXCEPT !.pc = "tts"])
         /\ messages' = messages
         /\ NoFold

\* variant: the clarification keeps the tool flag
FinalResultKeepsFlag(t, r, responseText, toolUsed) ==
    IF responseText = ""
    THEN AfterAsk(t, [r EXCEPT !.reply = responseText], CLARIFY, toolUsed)
    ELSE AfterAsk(t, [r EXCEPT !.reply = responseText], responseText, toolUsed)

\* if (!responseText) return the canned clarification with toolUsed false. The turn's
\* field reply records result.text of the final reply.
FinalResult(t, r, responseText, toolUsed) ==
    IF responseText = ""
    THEN AfterAsk(t, [r EXCEPT !.reply = responseText], CLARIFY, FALSE)
    ELSE AfterAsk(t, [r EXCEPT !.reply = responseText], responseText, toolUsed)

\* the first sendMessage settles, its reply carrying one of the call lists of lists. The
\* turn's fields nCalls and calls record the function calls of the reply.
Llm1Settles(t, lists) ==
    /\ UNCHANGED <<error, chatSession, nTurns, mediaRecorderRef, streamRef,
                   currentSourceRef, sources>>
    /\ \/ AfterAsk(t, [turns[t] EXCEPT !.engineFailed = TRUE], APOLOGY, FALSE)
       \/ \E calls \in lists, text \in EngineTexts :
            IF Len(calls) > 0
            THEN IF ToolThrows(calls)
                 THEN AfterAsk(t, [turns[t] EXCEPT !.toolRan = ToolRan(calls),
                                                   !.nCalls = Len(calls)],
                               APOLOGY, FALSE)
                 ELSE /\ SetTurn(t, [turns[t] EXCEPT !.pc = "llm2", !.toolUsed = TRUE,
                                                     !.rounds = 2,
                                                     !.toolRan = ToolRan(calls),
                                                     !.nCalls = Len(calls),
                                                     !.calls = calls,
                                                     !.parts = ToolParts(calls)])
                      /\ UNCHANGED <<status, messages>>
                      /\ NoFold
            ELSE FinalResult(t, turns[t], text, FALSE)

Llm1Done(t) ==
    /\ UNCHANGED <<now, mode>>
    /\ turns[t].pc = "llm1"
    /\ Llm1Settles(t, CallLists)

\* variant: the function calls of the follow-up reply are resolved and sent back too
FollowUpLoops(t, calls, text) ==
    IF Len(calls) > 0 /\ ~ToolThrows(calls)
    THEN /\ SetTurn(t, [turns[t] EXCEPT !.rounds = @ + 1,
                                        !.toolRan = @ \/ ToolRan(calls),
                                        !.calls = calls,
                                        !.parts = ToolParts(calls)])
         /\ UNCHANGED <<status, messages>>
         /\ NoFold
    ELSE FinalResult(t, turns[t], text, turns[t].toolUsed)

\* the reply of the follow-up: only result.text is read. The turn's field unread records
\* how many function calls the reply carried, until the turn folds its metrics.
FollowUp(t, calls, text) ==
    FinalResult(t, [turns[t] EXCEPT !.unread = Len(calls)], text, turns[t].toolUsed)

\* the follow-up sendMessage(parts) settles; function calls in its reply are not read.
\* The turn's field rounds counts the sendMessage calls of this getBotResponse.
Llm2Done(t) ==
    /\ UNCHANGED <<now, mode>>
    /\ turns[t].pc = "llm2"
    /\ UNCHANGED <<error, chatSession, nTurns, mediaRecorderRef, streamRef,
                   currentSourceRef, sources>>
    /\ \/ AfterAsk(t, [turns[t] EXCEPT !.engineFailed = TRUE], APOLOGY, FALSE)
       \/ \E calls \in CallLists, text \in EngineTexts : FollowUp(t, calls, text)

\* generateSpeech settles: bytes, or a throw (service error or no audio data)
TtsDone(t) ==
    /\ UNCHANGED <<now, mode>>
    /\ turns[t].pc = "tts"
    /\ UNCHANGED <<error, chatSession, nTurns, mediaRecorderRef, streamRef,
                   currentSourceRef, sources>>
    /\ \E audio \in BOOLEAN : Finish(t, turns[t], audio, TRUE)

(* ---------------- playResponse ---------------- *)
\* variant: a playback failure is fatal
PlayCatchFatal ==
    /\ status' = "error"
    /\ error' = "AUDIO ERR"

\* the catch of playResponse: setStatus('idle'), setError("AUDIO ERR")
PlayCatch ==
    /\ status' = "idle"
    /\ error' = "AUDIO ERR"

\* the awaits of playResponse (resume, decodeAudioData) settle and the source starts, or
\* one of them throws; processConversationTurn then appends the bot message
PlayDone(t) ==
    /\ UNCHANGED <<now, mode>>
    /\ turns[t].pc = "play"
    /\ messages' = AppendBot(messages, t, turns[t].text, turns[t].toolUsed)
    /\ SetTurn(t, [turns[t] EXCEPT !.pc = "done", !.outcome = "completed"])
    /\ UNCHANGED <<chatSession, nTurns, mediaRecorderRef, streamRef>>
    /\ NoFold
    /\ \/ /\ currentSourceRef' = t
          /\ sources' = [sources EXCEPT ![t] = "playing"]
          /\ UNCHANGED <<status, error>>
       \/ \E started \in BOOLEAN :
            /\ currentSourceRef' = IF started THEN t ELSE currentSourceRef
            /\ PlayCatch
            /\ UNCHANGED sources

\* source.onended: natural end of the buffer, or the end that follows stop()
PlaybackEnded(t) ==
    /\ UNCHANGED <<now, mode>>
    /\ sources[t] \in {"playing", "stopped"}
    /\ sources' = [sources EXCEPT ![t] = "ended"]
    /\ status' = IF status = "playing" THEN "idle" ELSE status
    /\ UNCHANGED <<error, messages, chatSession, turns, nTurns,
                   mediaRecorderRef, streamRef, currentSourceRef>>
    /\ NoFold

(* ---------------- handleSuggestionClick ---------------- *)
SuggestionGuard == status = "idle"

handleSuggestionClick ==
    /\ UNCHANGED <<now, mode>>
    /\ nTurns < MaxTurns
    /\ IF ~SuggestionGuard
       THEN UNCHANGED vars
       ELSE /\ ConversationTurn(nTurns + 1, [NoTurn EXCEPT !.kind = "text"], SUGGESTION)
            /\ nTurns' = nTurns + 1
            /\ UNCHANGED <<mediaRecorderRef, streamRef, currentSourceRef, sources>>
            /\ NoFold

(* ---------------- startRecording / stopRecording ---------------- *)
\* the mic button is enabled, and shows "start", in these states
MicStartEnabled == status \in {"idle", "playing", "error"}

\* click on the mic button while not recording: startRecording up to the await of
\* getUserMedia. The closures of this render (processAudioInput among them) see this
\* status. The turn's field found records what stopPlayback met: no source, or the state
\* of the source the ref held.
startRecording ==
    /\ UNCHANGED <<now, mode>>
    /\ MicStartEnabled
    /\ nTurns < MaxTurns
    /\ stopPlayback
    /\ error' = "null"
    /\ nTurns' = nTurns + 1
    /\ SetTurn(nTurns + 1, [NoTurn EXCEPT !.pc = "pending", !.kind = "voice",
                                          !.closure = status,
                                          !.found = IF currentSourceRef = 0 THEN "noref"
                                                    ELSE sources[currentSourceRef]])
    /\ UNCHANGED <<status, messages, chatSession, mediaRecorderRef, streamRef,
                   currentSourceRef>>
    /\ NoFold

\* the catch of startRecording: only the error text is set
MicError(name) ==
    IF name \in {"NotAllowedError", "PermissionDeniedError"} THEN "PERM DENIED"
    ELSE IF name = "NotFoundError" THEN "NO MIC FOUND"
    ELSE "MIC ERROR"

\* getUserMedia settles: the stream is kept, the recorder created and started, or the
\* request is refused, or the MediaRecorder constructor throws after the stream was opened
GetUserMediaDone(t) ==
    /\ UNCHANGED <<now, mode>>
    /\ turns[t].pc = "pending"
    /\ UNCHANGED <<messages, chatSession, nTurns, currentSourceRef, sources>>
    /\ NoFold
    /\ \/ /\ streamRef' = t
          /\ mediaRecorderRef' = t
          /\ SetTurn(t, [turns[t] EXCEPT !.pc = "recording", !.stream = "open"])
          /\ status' = "recording"
          /\ error' = error
       \/ \E name \in {"NotAllowedError", "NotFoundError", "AbortError"} :
            /\ error' = MicError(name)
            /\ SetTurn(t, [turns[t] EXCEPT !.pc = "done", !.outcome = "micFailed"])
            /\ UNCHANGED <<status, streamRef, mediaRecorderRef>>
       \/ /\ streamRef' = t
          /\ error' = MicError("NotSupportedError")
          /\ SetTurn(t, [turns[t] EXCEPT !.pc = "done", !.outcome = "micFailed",
                                         !.stream = "open"])
          /\ UNCHANGED <<status, mediaRecorderRef>>

\* click on the mic button while recording: stopRecording. stop() on a recorder that is
\* already inactive throws in the handler and changes nothing.
stopRecording ==
    /\ UNCHANGED <<now, mode>>
    /\ status = "recording"
    /\ mediaRecorderRef # 0
    /\ turns[mediaRecorderRef].pc = "recording"
    /\ SetTurn(mediaRecorderRef, [turns[mediaRecorderRef] EXCEPT !.pc = "stopping"])
    /\ UNCHANGED <<status, error, messages, chatSession, nTurns,
                   mediaRecorderRef, streamRef, currentSourceRef, sources>>
    /\ NoFold

(* ---------------- processAudioInput ---------------- *)
\* variant: the outer catch goes straight to idle and schedules nothing
OuterCatchGoesIdle(t, r, outcome) ==
    /\ error' = "SYSTEM ERR"
    /\ status' = "idle"
    /\ SetTurn(t, [r EXCEPT !.pc = "failed", !.outcome = outcome])

\* the outer catch: setError, setStatus('error'), setTimeout(if status !== 'recording' ...)
OuterCatch(t, r, outcome) ==
    /\ error' = "SYSTEM ERR"
    /\ status' = "error"
    /\ SetTurn(t, [r EXCEPT !.pc = "failed", !.outcome = outcome, !.timer = "outer"])

\* streamRef.current.getTracks().forEach(track => track.stop())
StopTracks(ts) ==
    [u \in Turns |-> IF u = streamRef /\ ts[u].stream = "open"
                     THEN [ts[u] EXCEPT !.stream = "closed"] ELSE ts[u]]

\* variant: a blob one byte below the minimum is let through
TooShortOffByOne(size) == size < MIN_BLOB_SIZE - 1

\* if (blob.size < 100)
TooShort(size) == size < MIN_BLOB_SIZE

\* mediaRecorder.onstop: the tracks of streamRef are stopped, the blob is built and
\* checked, and blobToBase64 is awaited. The turn's field short records that the blob
\* held fewer bytes than the minimum.
processAudioInput(t) ==
    /\ UNCHANGED <<now, mode>>
    /\ turns[t].pc = "stopping"
    /\ UNCHANGED <<messages, chatSession, nTurns, mediaRecorderRef, streamRef,
                   currentSourceRef, sources>>
    /\ NoFold
    /\ \E size \in BlobSizes :
         LET r == [turns[t] EXCEPT !.short = (size < MIN_BLOB_SIZE)] IN
         IF TooShort(size)
         THEN /\ error' = "TOO SHORT"
              /\ status' = "idle"
              /\ turns' = StopTracks([turns EXCEPT ![t] = [r EXCEPT !.pc = "done",
                                                                    !.outcome = "tooShort"]])
         ELSE /\ turns' = StopTracks([turns EXCEPT ![t] = [r EXCEPT !.pc = "b64"]])
              /\ UNCHANGED <<status, error>>

\* blobToBase64 settles; the transcription call is dispatched
B64Done(t) ==
    /\ UNCHANGED <<now, mode>>
    /\ turns[t].pc = "b64"
    /\ UNCHANGED <<messages, chatSession, nTurns, mediaRecorderRef,
                   streamRef, currentSourceRef, sources>>
    /\ NoFold
    /\ \/ /\ status' = "transcribing"
          /\ error' = error
          /\ SetTurn(t, [turns[t] EXCEPT !.pc = "stt"])
       \/ OuterCatch(t, turns[t], "b64Failed")

\* variant: the sentinel is taken for speech
NoSpeechMissesSentinel(transcript) == Blank(transcript)

\* if (!transcript.trim() || transcript === "...")
NoSpeech(transcript) == Blank(transcript) \/ transcript = "..."

\* transcribeAudio settles: a throw, no speech, or a transcript that is handed to
\* processConversationTurn
SttDone(t) ==
    /\ UNCHANGED <<now, mode>>
    /\ turns[t].pc = "stt"
    /\ UNCHANGED <<nTurns, mediaRecorderRef, streamRef, currentSourceRef, sources>>
    /\ NoFold
    /\ \/ /\ OuterCatch(t, turns[t], "sttFailed")
          /\ UNCHANGED <<messages, chatSession>>
       \/ \E transcript \in Transcripts :
            IF NoSpeech(transcript)
            THEN /\ status' = "idle"
                 /\ error' = "NO SPEECH"
                 /\ SetTurn(t, [turns[t] EXCEPT !.pc = "done", !.outcome = "noSpeech"])
                 /\ UNCHANGED <<messages, chatSession>>
            ELSE ConversationTurn(t, turns[t], transcript)

(* ---------------- error recovery timers ---------------- *)
\* setTimeout(() => setStatus('idle'), 4000) of processConversationTurn, and
\* setTimeout(() => { if (status !== 'recording') setStatus('idle') }, 4000) of
\* processAudioInput, whose status is the one its closure captured
TimerFires(t) ==
    /\ UNCHANGED <<now, mode>>
    /\ turns[t].timer \in {"inner", "outer"}
    /\ status' = IF turns[t].timer = "inner" \/ turns[t].closure # "recording"
                 THEN "idle" ELSE status
    /\ SetTurn(t, [turns[t] EXCEPT !.timer = "fired"])
    /\ UNCHANGED <<error, messages, chatSession, nTurns, mediaRecorderRef,
                   streamRef, currentSourceRef, sources>>
    /\ NoFold

(* ---------------- the application ---------------- *)
Next ==
    \/ handleSuggestionClick
    \/ startRecording
    \/ stopRecording
    \/ \E t \in Turns : GetUserMediaDone(t)
    \/ \E t \in Turns : processAudioInput(t)
    \/ \E t \in Turns : B64Done(t)
    \/ \E t \in Turns : SttDone(t)
    \/ \E t \in Turns : Llm1Done(t)
    \/ \E t \in Turns : Llm2Done(t)
    \/ \E t \in Turns : TtsDone(t)
    \/ \E t \in Turns : PlayDone(t)
    \/ \E t \in Turns : PlaybackEnded(t)
    \/ \E t \in Turns : TimerFires(t)

Spec == Init /\ [][Next]_vars

\* what happens without the user: every promise of an external call settles, the recorder
\* delivers its stop event, playback ends, and every timer fires
Settles(t) ==
    \/ GetUserMediaDone(t)
    \/ processAudioInput(t)
    \/ B64Done(t)
    \/ SttDone(t)
    \/ Llm1Done(t)
    \/ Llm2Done(t)
    \/ TtsDone(t)
    \/ PlayDone(t)
    \/ PlaybackEnded(t)
    \/ TimerFires(t)

\* the pipeline in an environment that answers: each pending step of each interaction is
\* eventually taken; the user's clicks are under no obligation
SpecLive ==
    /\ Spec
    /\ \A t \in Turns :
          /\ WF_vars(GetUserMediaDone(t))
          /\ WF_vars(processAudioInput(t))
          /\ WF_vars(B64Done(t))
          /\ WF_vars(SttDone(t))
          /\ WF_vars(Llm1Done(t))
          /\ WF_vars(Llm2Done(t))
          /\ WF_vars(TtsDone(t))
          /\ WF_vars(PlayDone(t))
          /\ WF_vars(PlaybackEnded(t))
          /\ WF_vars(TimerFires(t))

(* ---------------- analytics alone: any sequence of folds ---------------- *)
FoldAny ==
    /\ UNCHANGED <<now, mode>>
    /\ nFolds < MaxFolds
    /\ \E p \in Partials : Fold(p)
    /\ UNCHANGED uiVars

NextFold == FoldAny

SpecFold == Init /\ [][NextFold]_vars

(* ---------------- the view with a running clock ---------------- *)
\* a millisecond passes
Tick ==
    /\ now < ClockStart + MaxTicks
    /\ now' = now + 1
    /\ mode' = mode
    /\ UNCHANGED uiVars
    /\ NoFold

\* suggestion turns, their playback and their recovery timers, while the clock runs
NextLog ==
    \/ handleSuggestionClick
    \/ \E t \in Turns : Llm1Done(t)
    \/ \E t \in Turns : Llm2Done(t)
    \/ \E t \in Turns : TtsDone(t)
    \/ \E t \in Turns : PlayDone(t)
    \/ \E t \in Turns : PlaybackEnded(t)
    \/ \E t \in Turns : TimerFires(t)
    \/ Tick

SpecLog == Init /\ [][NextLog]_vars

(* ---------------- the application's mode switch ---------------- *)
\* no interaction of the view is under way: no call pending, no recorder running, no
\* recovery timer scheduled, no buffer source that has yet to signal its end
Quiet ==
    \A t \in Turns : /\ turns[t].pc \in {"none", "done", "failed"}
                     /\ turns[t].timer \notin {"inner", "outer"}
                     /\ sources[t] \notin {"playing", "stopped"}

\* a click on a navigation button: setMode(m). App renders VoiceBotView only while the mode
\* is voice_bot, so leaving that mode unmounts the view and returning mounts a new one,
\* whose state and refs start from their initial values; the metrics of App and the
\* chatSession of the service module are not touched. While the view is unmounted its
\* variables keep the values it last had; nothing shows them. The switch away is taken
\* here only when the view is quiet: continuations of an unmounted view are not followed.
setMode(m) ==
    /\ UNCHANGED now
    /\ m # mode
    /\ mode' = m
    /\ UNCHANGED <<chatSession, turns, nTurns, sources>>
    /\ NoFold
    /\ IF mode = "voice_bot"
       THEN /\ Quiet
            /\ UNCHANGED <<status, error, messages, mediaRecorderRef, streamRef,
                           currentSourceRef>>
       ELSE IF m = "voice_bot"
            THEN /\ status' = "idle"
                 /\ error' = "null"
                 /\ messages' = InitialMessages
                 /\ mediaRecorderRef' = 0
                 /\ streamRef' = 0
                 /\ currentSourceRef' = 0
            ELSE UNCHANGED <<status, error, messages, mediaRecorderRef, streamRef,
                             currentSourceRef>>

\* a suggestion button can be clicked only while the view is on screen
ShownSuggestionClick ==
    /\ mode = "voice_bot"
    /\ handleSuggestionClick

\* suggestion turns, their playback and their recovery timers, and the navigation
NextMode ==
    \/ ShownSuggestionClick
    \/ \E t \in Turns : Llm1Done(t)
    \/ \E t \in Turns : Llm2Done(t)
    \/ \E t \in Turns : TtsDone(t)
    \/ \E t \in Turns : PlayDone(t)
    \/ \E t \in Turns : PlaybackEnded(t)
    \/ \E t \in Turns : TimerFires(t)
    \/ \E m \in AppMode : setMode(m)

SpecMode == Init /\ [][NextMode]_vars

(* ---------------- the adapter alone: suggestion turns up to the return of ask ---------------- *)
AskLlm1Done(t) ==
    /\ UNCHANGED <<now, mode>>
    /\ turns[t].pc = "llm1"
    /\ Llm1Settles(t, AskCallLists)

NextAsk ==
    \/ handleSuggestionClick
    \/ \E t \in Turns : AskLlm1Done(t)
    \/ \E t \in Turns : Llm2Done(t)

SpecAsk == Init /\ [][NextAsk]_vars

(* ======================= properties ======================= *)
\* processAudioInput or processConversationTurn of interaction t is between its start
\* and its last state update
InFlight(t) == turns[t].pc \in {"b64", "stt", "llm1", "llm2", "tts", "play"}

\* processConversationTurn of interaction t is between setStatus('thinking') and its end
Conversing(t) == turns[t].pc \in {"llm1", "llm2", "tts", "play"}

\* processConversationTurn has been entered for interaction t
Entered(t) == Conversing(t) \/ turns[t].outcome \in {"completed", "askThrew"}

UserIdx(t) == {k \in 1..Len(messages) : messages[k].role = "user" /\ messages[k].turn = t}
BotIdx(t) == {k \in 1..Len(messages) : messages[k].role = "model" /\ messages[k].turn = t}

\* the step appends a user message
UserAppended == /\ Len(messages') = Len(messages) + 1
                /\ messages'[Len(messages')].role = "user"

\* C1: at most one conversation turn is in flight in every reachable state.
C1_SingleFlight == Cardinality({t \in Turns : InFlight(t)}) <= 1

\* C2: from the moment a turn has set the status to thinking until that turn has ended
\* (idle or error), no other turn request is accepted: no step appends a user message.
C2_RejectedUntilTurnEnds ==
    [][(\E t \in Turns : Conversing(t)) => ~UserAppended]_vars

\* C3: once processConversationTurn has been entered for a turn, and so whenever its
\* reasoning call is in flight or has settled, whatever the outcome, the transcript holds
\* that turn's user message, exactly once and before any assistant message of the turn.
C3_UserMessageKept ==
    \A t \in Turns : Entered(t) =>
        /\ Cardinality(UserIdx(t)) = 1
        /\ \A u \in UserIdx(t), b \in BotIdx(t) : u < b

C3_Witness ==
    \E t \in Turns : /\ turns[t].outcome = "askThrew"
                     /\ UserIdx(t) # {}
                     /\ \E u \in Turns : turns[u].outcome = "completed" /\ turns[u].audio
                                          /\ status = "idle" /\ error = "AUDIO ERR"

\* a turn whose reasoning step threw
C4_State ==
    \A t \in Turns : turns[t].outcome = "askThrew" =>
        /\ turns[t].pc = "failed"
        /\ turns[t].timer \in {"inner", "fired"}
        /\ BotIdx(t) = {}
        /\ Cardinality(UserIdx(t)) = 1
        /\ turns[t].folds = 0

C4_Step ==
    \A t \in Turns :
        (turns[t].outcome # "askThrew" /\ turns'[t].outcome = "askThrew") =>
            /\ status' = "error"
            /\ turns'[t].timer = "inner"
            /\ metrics' = metrics
            /\ UserAppended

\* C4: a turn whose reasoning step throws goes to error with the recovery timer
\* scheduled, appends no assistant message and folds no metrics; in the step that throws
\* the transcript grows by the one user message and the analytics stay as they were.
C4_ReasoningThrowIsFatal == []C4_State /\ [][C4_Step]_vars

C4_Witness ==
    \E t \in Turns : /\ turns[t].outcome = "askThrew"
                     /\ turns[t].timer = "fired"
                     /\ metrics.totalQueries > 0

\* C5: getBotResponse never throws, and whenever the engine failed the result is the
\* canned apology with toolUsed false.
C5_AskNeverFails ==
    \A t \in Turns :
        /\ turns[t].outcome # "askThrew"
        /\ (turns[t].engineFailed /\ turns[t].pc \in {"tts", "play", "done"}) =>
               (turns[t].text = APOLOGY /\ ~turns[t].toolUsed)

\* C6: a turn in which the reasoning engine failed still completes: it never enters
\* error, and once it has ended it has appended exactly one assistant message, the canned
\* apology with the tool flag false.
C6_EngineFailureCompletes ==
    \A t \in Turns : turns[t].engineFailed =>
        /\ turns[t].pc # "failed"
        /\ turns[t].pc = "done" =>
             /\ Cardinality(BotIdx(t)) = 1
             /\ \A b \in BotIdx(t) : messages[b].text = APOLOGY /\ ~messages[b].isToolUse

\* the step in which the turn leaves its reasoning or synthesis call without audio
C7_Step ==
    \A t \in Turns :
        (turns[t].pc \in {"llm1", "llm2", "tts"} /\ turns'[t].pc \notin {"llm1", "llm2", "tts"}
            /\ ~turns'[t].audio) =>
            /\ turns'[t].pc = "done"
            /\ status' = "idle"
            /\ nFolds' = nFolds + 1
            /\ metrics'.totalQueries = metrics.totalQueries + 1
            /\ messages' = Append(messages, BotMsg(t, turns'[t].text, turns'[t].toolUsed))

C7_State ==
    \A t \in Turns : (turns[t].pc = "play" \/ sources[t] # "none") => turns[t].audio

\* C7: when synthesis gives no audio (a throw, or null for a blank text) the step that
\* receives that result folds the metrics once, appends the assistant message and sets
\* the status to idle, ending the turn; the turn never enters playing.
C7_NoAudioGoesIdle == []C7_State /\ [][C7_Step]_vars

C7_Witness ==
    \E t \in Turns : /\ turns[t].outcome = "completed"
                     /\ ~turns[t].audio
                     /\ ~Blank(turns[t].text)
                     /\ turns[t].folds = 1
                     /\ BotIdx(t) # {}
                     /\ \E u \in Turns : turns[u].outcome = "completed" /\ Blank(turns[u].text)

\* C8: after N >= 1 folds, each with totalQueries = 1 and a positive response time,
\* totalQueries = N and avgResponseTime * totalQueries equals the sum of the times.
C8_MeanOfUnitFolds ==
    (unitFolds /\ nFolds >= 1) =>
        /\ metrics.totalQueries = nFolds
        /\ metrics.avgResponseTime.num * metrics.totalQueries
              = sumMillis * metrics.avgResponseTime.den

C8_Witness == unitFolds /\ nFolds = 3 /\ sumMillis = 7

\* C9: after any sequence of completed turns avgResponseTime is the arithmetic mean of
\* the totalMillis of the turns counted in totalQueries, a turn with totalMillis 0 included.
C9_AvgIsTrueMean ==
    metrics.totalQueries > 0 =>
        metrics.avgResponseTime.num * metrics.totalQueries
            = sumMillis * metrics.avgResponseTime.den

\* C10: a fold whose argument has every field absent leaves the aggregate unchanged.
C10_AbsentFoldIsNoOp ==
    [][(nFolds' = nFolds + 1 /\ lastArg' = AllAbsent) => metrics' = metrics]_vars

C10_Witness ==
    /\ lastArg = AllAbsent
    /\ nFolds >= 2
    /\ metrics.totalQueries > 0
    /\ metrics.avgResponseTime.num > 0
    /\ metrics.backendCalls > 0
    /\ metrics.lastQueryLatency # NoLatency

\* C11: backendCalls counts exactly the completed turns (those that folded their
\* metrics) in which the adapter ran a tool: each such turn added one, every other none.
C11_BackendCallsCountToolTurns ==
    metrics.backendCalls
        = Cardinality({t \in Turns : turns[t].folds > 0 /\ turns[t].toolRan})

\* a voice turn whose blob was below the minimum size
C12_State ==
    \A t \in Turns : turns[t].short =>
        /\ turns[t].pc = "done"
        /\ turns[t].outcome = "tooShort"
        /\ turns[t].timer = "none"
        /\ UserIdx(t) = {} /\ BotIdx(t) = {}
        /\ turns[t].folds = 0

C12_Step ==
    \A t \in Turns : (~turns[t].short /\ turns'[t].short) =>
        /\ status' = "idle"
        /\ error' = "TOO SHORT"
        /\ messages' = messages
        /\ metrics' = metrics /\ nFolds' = nFolds
        /\ chatSession' = chatSession

\* C12: when recording stops with a blob below 100 bytes the handler ends at once with
\* outcome too short and status idle: the turn never reaches the transcription, reasoning
\* or synthesis call, and the step leaves the transcript and the analytics as they were.
C12_TooShortIsDropped == []C12_State /\ [][C12_Step]_vars

C12_Witness ==
    \E t \in Turns : /\ turns[t].short
                     /\ turns[t].outcome = "tooShort"
                     /\ status = "idle"
                     /\ Len(messages) > 2
                     /\ metrics.totalQueries > 0

\* a voice turn whose transcription gave no speech
C13_State ==
    /\ \A t \in Turns : turns[t].outcome = "noSpeech" =>
          /\ turns[t].pc = "done"
          /\ UserIdx(t) = {} /\ BotIdx(t) = {}
          /\ turns[t].folds = 0
    /\ \A k \in 1..Len(messages) : messages[k].role = "user" =>
          /\ messages[k].text \notin {"", " "}
          /\ messages[k].text # "..."

C13_Step ==
    \A t \in Turns : (turns[t].outcome # "noSpeech" /\ turns'[t].outcome = "noSpeech") =>
        /\ turns[t].pc = "stt"
        /\ status' = "idle"
        /\ error' = "NO SPEECH"
        /\ messages' = messages
        /\ metrics' = metrics /\ nFolds' = nFolds
        /\ chatSession' = chatSession

\* C13: an empty or whitespace-only transcript, or the sentinel "...", ends the voice turn
\* before processConversationTurn: status idle, outcome no speech, no reasoning call and
\* no message appended; no user message of the transcript ever holds such a text.
C13_NoSpeechAborts == []C13_State /\ [][C13_Step]_vars

C13_Witness ==
    \E t \in Turns : /\ turns[t].outcome = "noSpeech"
                     /\ status = "idle"
                     /\ error = "NO SPEECH"
                     /\ Len(messages) > 2

\* a voice turn whose transcription call failed
C14_State ==
    \A t \in Turns : turns[t].outcome = "sttFailed" =>
        /\ turns[t].pc = "failed"
        /\ turns[t].timer \in {"outer", "fired"}
        /\ UserIdx(t) = {} /\ BotIdx(t) = {}
        /\ turns[t].folds = 0

C14_Step ==
    \A t \in Turns :
        /\ (turns[t].outcome # "sttFailed" /\ turns'[t].outcome = "sttFailed") =>
              /\ status' = "error"
              /\ turns'[t].timer = "outer"
              /\ messages' = messages
              /\ metrics' = metrics /\ nFolds' = nFolds
              /\ chatSession' = chatSession
        /\ (turns[t].outcome = "sttFailed" /\ turns[t].timer = "outer"
               /\ turns'[t].timer = "fired") => status' = "idle"

\* C14: a failed transcription call puts the voice turn in error with the recovery timer
\* scheduled, and the timer's firing sets idle; the turn appends no message, makes no
\* reasoning or synthesis call and folds no metrics.
C14_SttFailureIsFatal == []C14_State /\ [][C14_Step]_vars

C14_Witness ==
    \E t \in Turns : /\ turns[t].outcome = "sttFailed"
                     /\ turns[t].timer = "fired"
                     /\ status = "idle"
                     /\ Len(messages) > 2

\* C15: when starting capture fails, the step that catches the failure sets the status
\* to error and leaves the transcript as it was.
C15_MicFailureEntersError ==
    [][\A t \in Turns :
         (turns[t].outcome # "micFailed" /\ turns'[t].outcome = "micFailed") =>
             /\ status' = "error"
             /\ messages' = messages]_vars

\* the step is the catch of playResponse
PlaybackFailed ==
    \E t \in Turns : turns[t].pc = "play" /\ turns'[t].pc = "done" /\ sources'[t] # "playing"

\* C16: while the status is playing and a source plays on, no step sets the status to
\* idle, except the failure of a playback being started.
C16_OnlyPlaybackLeavesPlaying ==
    [][(/\ status = "playing" /\ status' = "idle"
        /\ \E t \in Turns : sources[t] = "playing" /\ sources'[t] = "playing")
          => PlaybackFailed]_vars

\* the step calls stopPlayback (through startRecording, its only caller)
StopRequested == nTurns' = nTurns + 1 /\ turns'[nTurns'].kind = "voice"

\* C17: the step in which stop-playback is requested ends with the status idle.
C17_StopForcesIdle == [][StopRequested => status' = "idle"]_vars

\* the sources stopPlayback would leave if it were called now
C18_State ==
    LET once == Stopped(sources, currentSourceRef) IN
    /\ Stopped(once, currentSourceRef) = once
    /\ (currentSourceRef = 0 \/ sources[currentSourceRef] # "playing") => once = sources

C18_Step ==
    StopRequested =>
        /\ turns'[nTurns'].pc = "pending"
        /\ status' = status
        /\ turns'[nTurns'].found # "playing" => sources' = sources
        /\ Stopped(sources', currentSourceRef') = sources'

\* C18: stopPlayback never raises (startRecording goes on to getUserMedia) and leaves
\* the status alone; with no source, or a source that is not playing, it changes nothing;
\* applied a second time it changes nothing more.
C18_StopIsIdempotent == []C18_State /\ [][C18_Step]_vars

C18_Witness ==
    /\ \E t \in Turns : turns[t].found = "noref" /\ turns[t].closure = "idle"
    /\ \E t \in Turns : /\ turns[t].found \in {"stopped", "ended"}
                         /\ turns[t].pc = "pending"
                         /\ currentSourceRef # 0
                         /\ sources[currentSourceRef] = turns[t].found

C19_Step ==
    \A t \in Turns :
        (turns[t].pc = "play" /\ turns'[t].pc = "done" /\ sources'[t] # "playing") =>
            /\ status' = "idle"
            /\ error' = "AUDIO ERR"
            /\ messages' = Append(messages, BotMsg(t, turns[t].text, turns[t].toolUsed))
            /\ metrics' = metrics /\ nFolds' = nFolds
            /\ turns[t].folds = 1 /\ turns'[t].folds = 1
            /\ turns'[t].outcome = "completed"
            /\ turns'[t].timer = "none"

C19_State ==
    \A t \in Turns : turns[t].outcome = "completed" =>
        /\ turns[t].pc = "done"
        /\ turns[t].timer = "none"
        /\ turns[t].folds = 1
        /\ Cardinality(BotIdx(t)) = 1

\* C19: when starting the playback fails, the step that catches the failure sets the
\* status to idle, not error, schedules no recovery timer and appends the turn's
\* assistant message; the metrics folded before stay folded.
C19_PlaybackFailureIsNotFatal == []C19_State /\ [][C19_Step]_vars

C19_Witness ==
    \E t \in Turns : /\ turns[t].outcome = "completed"
                     /\ turns[t].audio
                     /\ sources[t] = "none"
                     /\ status = "idle"
                     /\ error = "AUDIO ERR"
                     /\ BotIdx(t) # {}
                     /\ metrics.totalQueries > 0

\* the status is error only while a recovery timer is pending
C20_State ==
    status = "error" => \E t \in Turns : turns[t].timer \in {"inner", "outer"}

\* error is entered from a status other than idle (a step that appends the user message
\* has set thinking before its failure), and a recovery timer that fires sets idle
C20_Step ==
    /\ (status # "error" /\ status' = "error") => (status # "idle" \/ UserAppended)
    /\ \A t \in Turns :
          (turns[t].timer \in {"inner", "outer"} /\ turns'[t].timer = "fired") =>
              status' = "idle"

\* C20: error is entered only from a status other than idle, after a failure that
\* schedules the recovery timer; the status stays error only while that timer is
\* pending, and the timer's firing sets idle.
C20_ErrorFromNonIdleRecovers == []C20_State /\ [][C20_Step]_vars

\* getBotResponse has returned for interaction t
Asked(t) == turns[t].pc \in {"tts", "play", "done"}

\* the tool results of a follow-up that is about to be sent
C21_State ==
    \A t \in Turns : turns[t].pc = "llm2" =>
        \A k \in 1..Len(turns[t].calls) :
            LET call == turns[t].calls[k]
                part == turns[t].parts[k] IN
            /\ call.name \notin {"getOrderStatus", "getAccountBalance"}
                  => part.result = "Function not found"
            /\ (call.name = "getOrderStatus" /\ call.orderId \notin OrderIds)
                  => part.result = "Order not found."

\* C21: resolving the tools never aborts ask: a call to a name that is not registered is
\* answered "Function not found", a getOrderStatus for an id that is not in the dataset
\* (or given no id or no arguments) is answered "Order not found.", and after a first
\* reply with calls the follow-up is sent: ask returns only after the final reply has
\* arrived or the engine itself has failed.
C21_ToolResolutionNeverAborts ==
    /\ C21_State
    /\ \A t \in Turns : (turns[t].nCalls >= 1 /\ Asked(t)) =>
          (turns[t].reply # "none" \/ turns[t].engineFailed)

\* C22: when the final reply's text is empty ask returns the canned clarification with
\* toolUsed false, whether or not tools ran; otherwise it returns the reply's text, with
\* toolUsed true exactly when the first reply carried at least one function call.
C22_FinalTextAndFlag ==
    \A t \in Turns : (Asked(t) /\ turns[t].reply # "none") =>
        IF turns[t].reply = ""
        THEN turns[t].text = CLARIFY /\ ~turns[t].toolUsed
        ELSE turns[t].text = turns[t].reply /\ (turns[t].toolUsed <=> turns[t].nCalls >= 1)

C22_Witness ==
    /\ \E t \in Turns : Asked(t) /\ turns[t].reply = "" /\ turns[t].toolRan
                         /\ turns[t].nCalls = MaxCalls
    /\ \E t \in Turns : Asked(t) /\ turns[t].reply \notin {"", "none"}
                         /\ turns[t].toolUsed /\ ~turns[t].toolRan

\* the follow-up that is about to be sent answers the calls one by one
C30_State ==
    \A t \in Turns : turns[t].pc = "llm2" =>
        /\ turns[t].nCalls >= 1
        /\ Len(turns[t].calls) = turns[t].nCalls
        /\ Len(turns[t].parts) = turns[t].nCalls
        /\ \A k \in 1..turns[t].nCalls :
              /\ turns[t].parts[k].id = turns[t].calls[k].id
              /\ turns[t].parts[k].name = turns[t].calls[k].name

C30_Step ==
    \A t \in Turns :
        /\ (turns[t].pc = "llm1" /\ turns'[t].pc # "llm1" /\ ~turns'[t].engineFailed) =>
              (turns'[t].pc = "llm2" <=> turns'[t].nCalls >= 1)
        /\ (turns[t].pc = "llm2" /\ turns'[t] # turns[t]) => Asked(t)'

\* C30: a first reply with k >= 1 function calls is followed by exactly one follow-up
\* message, which holds k tool responses in the order of the calls, each with the id and
\* name of its call; a first reply without calls is followed by none.
C30_OneFollowUpAnswersEveryCall == []C30_State /\ [][C30_Step]_vars

\* the transcript before the step is a prefix of the transcript after it
C23_Step ==
    /\ Len(messages') >= Len(messages)
    /\ SubSeq(messages', 1, Len(messages)) = messages

C23_State ==
    \A k \in 1..(Len(messages) - 1) : messages[k].timestamp <= messages[k + 1].timestamp

C25_DistinctIds ==
    \A i, j \in 1..Len(messages) :
        messages[i].timestamp < messages[j].timestamp => messages[i].id # messages[j].id

\* the interactions whose microphone stream is open, and those whose recorder is running
OpenStreams == {t \in Turns : turns[t].stream = "open"}
ActiveRecorders == {t \in Turns : turns[t].pc = "recording"}

\* C24: at most one microphone stream is open and at most one recorder is running, and
\* once no recorder is running or being started no stream is left open.
C24_OneStreamOneRecorder ==
    /\ Cardinality(OpenStreams) <= 1
    /\ Cardinality(ActiveRecorders) <= 1
    /\ (\A t \in Turns : turns[t].pc \notin {"pending", "recording", "stopping"})
          => OpenStreams = {}

\* C26: the status becomes recording only in the step of startRecording that starts the
\* recorder, and stops being recording only in a step of the stop handler of a recorder
\* that was stopped (processAudioInput up to the dispatch of the transcription).
C26_RecordingOwnedByCapture ==
    [][/\ (status # "recording" /\ status' = "recording") =>
            \E t \in Turns : turns[t].pc = "pending" /\ turns'[t].pc = "recording"
       /\ (status = "recording" /\ status' # "recording") =>
            \E t \in Turns : /\ turns[t].pc \in {"stopping", "b64"}
                             /\ turns'[t].pc # turns[t].pc]_vars

\* C27: while a transcription call is in flight the status is transcribing, while a
\* reasoning call is in flight it is thinking, while a synthesis call is in flight it is
\* synthesizing.
C27_StatusShowsSuspension ==
    \A t \in Turns :
        /\ turns[t].pc = "stt" => status = "transcribing"
        /\ turns[t].pc \in {"llm1", "llm2"} => status = "thinking"
        /\ turns[t].pc = "tts" => status = "synthesizing"

\* C28: no audio source starts while the status is recording, and the source of a
\* suggestion turn does not start once a later click on the mic has requested a stop.
C28_StopCancelsPendingPlayback ==
    [][\A t \in Turns :
         (sources[t] # "playing" /\ sources'[t] = "playing") =>
             /\ status' # "recording"
             /\ turns[t].kind = "text" =>
                   \A u \in Turns : u > t => turns[u].kind # "voice"]_vars

\* the step that appends the assistant message of a turn with audio
C29_Step ==
    \A t \in Turns :
        /\ (BotIdx(t) = {} /\ BotIdx(t)' # {} /\ turns'[t].audio) =>
              /\ turns[t].pc = "play"
              /\ turns[t].folds = 1
              /\ sources[t] = "none"
              /\ sources'[t] \in {"playing", "none"}
        /\ (turns[t].pc # "play" /\ turns'[t].pc = "play") =>
              /\ status' = "playing"
              /\ nFolds' = nFolds + 1
              /\ BotIdx(t)' = {}

C29_State ==
    \A t \in Turns :
        /\ turns[t].pc = "play" => (turns[t].audio /\ turns[t].folds = 1 /\ BotIdx(t) = {})
        /\ sources[t] # "none" => (turns[t].audio /\ Cardinality(BotIdx(t)) = 1)

\* C29: a turn with audio folds its metrics and sets playing first, and appends its
\* assistant message in the step in which playResponse returns, when the source has
\* been started (or has failed to start) and has not ended: the message is in the
\* transcript for as long as the source plays, whether or not it ever ends.
C29_BotMessageAfterPlaybackStarts == []C29_State /\ [][C29_Step]_vars

C29_Witness ==
    \E t \in Turns : /\ turns[t].audio
                     /\ sources[t] = "playing"
                     /\ status = "playing"
                     /\ BotIdx(t) # {}
                     /\ metrics.totalQueries > 0

\* C31: a recovery timer that fires either takes the status from error to idle or
\* leaves the status as it is.
C31_TimerOnlyLeavesError ==
    [][\A t \in Turns :
         (turns[t].timer \in {"inner", "outer"} /\ turns'[t].timer = "fired") =>
             \/ status = "error" /\ status' = "idle"
             \/ status' = status]_vars

\* the outcomes of an interaction that did not complete
NotCompleted == {"tooShort", "noSpeech", "sttFailed", "b64Failed", "micFailed", "askThrew"}

C32_State ==
    /\ \A t \in Turns : turns[t].outcome \in NotCompleted => turns[t].folds = 0
    /\ metrics.totalQueries = Cardinality({t \in Turns : turns[t].folds > 0})
    /\ nFolds = metrics.totalQueries

C32_Step ==
    \/ metrics' = metrics
    \/ \E t \in Turns : /\ turns'[t].folds = turns[t].folds + 1
                         /\ turns'[t].outcome \notin NotCompleted

\* C32: an interaction that ends as too short, no speech, transcription failure,
\* capture failure or fatal reasoning failure has folded nothing, and the analytics
\* change only in a step in which a turn folds its metrics: totalQueries counts the
\* turns that did.
C32_OnlyCompletedTurnsFold == []C32_State /\ [][C32_Step]_vars

C32_Witness ==
    /\ metrics.totalQueries = 1
    /\ metrics.lastQueryLatency # NoLatency
    /\ \E t \in Turns : turns[t].outcome = "completed"
    /\ \E t \in Turns : turns[t].outcome \in NotCompleted /\ turns[t].timer = "fired"

\* the assistant messages appended by turns (all but the greeting)
BotMessages == {k \in 1..Len(messages) : messages[k].role = "model" /\ messages[k].turn # 0}

UserActions ==
    nTurns + Cardinality({t \in Turns : /\ turns[t].kind = "voice"
                                        /\ turns[t].outcome # "micFailed"
                                        /\ turns[t].pc \notin {"none", "pending", "recording"}})

\* C34: from every state whose status is neither idle nor recording, the status becomes
\* idle unless the user acts again first.
C34_EveryTurnEndsIdle ==
    \A k \in 0..(2 * MaxTurns) :
        (status \notin {"idle", "recording"} /\ UserActions = k)
            ~> (status = "idle" \/ UserActions # k)

C35_State ==
    \A t \in Turns :
        /\ turns[t].rounds <= 2
        /\ turns[t].pc = "llm1" => turns[t].rounds = 1
        /\ turns[t].pc = "llm2" => turns[t].rounds = 2
        /\ turns[t].rounds = 2 => turns[t].nCalls > 0
        /\ turns[t].unread > 0 => turns[t].rounds = 2 /\ turns[t].pc = "tts"

C35_Step ==
    \A t \in Turns :
        (turns[t].pc = "llm2" /\ turns'[t] # turns[t]) =>
            /\ Asked(t)'
            /\ turns'[t].rounds = 2
            /\ turns'[t].toolRan = turns[t].toolRan
            /\ turns'[t].nCalls = turns[t].nCalls

\* C35: one call of getBotResponse sends at most two messages to the engine, the second
\* only after a reply with function calls; when the follow-up settles the call returns,
\* whatever function calls that reply carries, and none of them is run.
C35_AtMostTwoRoundTrips == []C35_State /\ [][C35_Step]_vars

C35_Witness ==
    \E t \in Turns : /\ turns[t].pc = "tts"
                     /\ turns[t].rounds = 2
                     /\ turns[t].unread > 0
                     /\ turns[t].reply \notin {"none", ""}

C36_State ==
    (mode = "voice_bot" /\ Quiet) =>
        /\ Cardinality(BotMessages) = metrics.totalQueries
        /\ metrics.totalQueries > 0 => chatSession

C36_Step ==
    (mode # "voice_bot" /\ mode' = "voice_bot") =>
        /\ \A k \in 1..Len(messages) : \E j \in 1..Len(messages') : messages'[j] = messages[k]
        /\ metrics' = metrics
        /\ chatSession' = chatSession

\* C36: the step that returns to the voice agent keeps every message the transcript held
\* when the view was left, and keeps the metrics and the session; and whenever the view is
\* shown and quiet, the transcript has one assistant message per counted query, and the
\* session exists if a query was counted.
C36_TranscriptSurvivesSwitch == []C36_State /\ [][C36_Step]_vars

====
